---- MODULE Spec2Model ----
(***************************************************************************)
(* Model of v-connect-im/plugins/demo_plugin.py: the HTTP bridge plugin.   *)
(*                                                                         *)
(* Threads of the program:                                                 *)
(*   main      - main(): start_callback_server, the registration loop,     *)
(*               the keep-alive loop and the stop notification;            *)
(*   heartbeat - send_heartbeat(), a daemon thread started by main();      *)
(*   handlers  - one thread per inbound POST (ThreadingHTTPServer), each   *)
(*               running CallbackHandler.do_POST and then ack_event.       *)
(* reconnect_plugin has no call site in the file.  It is modelled as a     *)
(* call made on the main thread, either before the registration loop or    *)
(* from the keep-alive loop, so that register_plugin never runs twice at   *)
(* once, while the heartbeat and the handlers run concurrently with it.    *)
(*                                                                         *)
(* The program takes no lock and the interpreter may switch threads        *)
(* between any two attribute accesses: each write of STATE.plugin_id or    *)
(* STATE.token is a step of its own, and so is each read of them by the    *)
(* heartbeat and the handlers.  Only the main thread writes STATE, so its  *)
(* own reads of the pair are taken in one step.                            *)
(***************************************************************************)
EXTENDS Integers, Sequences, FiniteSets, TLC

\* ---------------------------------------------------------------- bounds
\* Number of reconnect_plugin invocations explored.
MaxReconnects == 1
\* Number of callback requests served at the same time.
MaxHandlers == 1

\* ------------------------------------------------------------- constants
PLUGIN_SERVER_PORT == 9102
RegisterTries == 10

\* ---------------------------------------------------------------- values
\* Python None (also what JSON null decodes to).
None == "None"
\* A key that the JSON object does not have.
ABSENT == "ABSENT"

\* PluginState.registered
registered(pid, tok) == pid # None /\ tok # None

\* ------------------------------------------------------------- http_post
\* What http_post can raise: urlopen wraps connection failures in URLError,
\* raises HTTPError (a subclass of URLError) on a non-success status, lets a
\* timeout while reading the response escape as TimeoutError, and json.loads
\* raises JSONDecodeError on a body that is not JSON.
HTTPErrors == {"HTTPError400", "HTTPError500"}
URLErrors == {"URLError"} \cup HTTPErrors
PostErrors == URLErrors \cup {"TimeoutError", "JSONDecodeError"}

\* isinstance(e, urllib.error.URLError)
IsURLError(e) == e \in URLErrors

\* isinstance(e, urllib.error.HTTPError)
IsHTTPError(e) == e \in HTTPErrors

\* e.code of an HTTPError
HTTPCode(e) == IF e = "HTTPError400" THEN 400 ELSE 500

\* The shapes of a decoded registration response: both keys, one key
\* missing (an empty body decodes to {}, which misses both and raises at the
\* first subscript like "no_plugin_id"), or one value null.
RespShapes == {"full", "no_plugin_id", "no_token", "null_plugin_id",
               "null_token"}

\* The credential the hub issues with its n-th registration: the plugin id
\* and the token of one registration carry the same number.
Id(n) == ToString(n)

\* The decoded response of the n-th registration the hub accepted.
Response(shape, n) ==
    [plugin_id |-> CASE shape = "no_plugin_id" -> ABSENT
                     [] shape = "null_plugin_id" -> None
                     [] OTHER -> Id(n),
     token |-> CASE shape = "no_token" -> ABSENT
                 [] shape = "null_token" -> None
                 [] OTHER -> Id(n)]

\* `resp` while no response is held.
NoResponse == [plugin_id |-> ABSENT, token |-> ABSENT]

\* resp[key]: the exception the subscript raises, or "ok".
SubscriptError(r, key) == IF r[key] = ABSENT THEN "KeyError" ELSE "ok"

\* ------------------------------------------------------------ JSON values
\* A JSON value of a request body: its type and, for a string, its
\* characters (for a number, its digits).  "absent" stands for a key the
\* object does not have.
JAbsent == [t |-> "absent", s |-> <<>>]
JNull == [t |-> "null", s |-> <<>>]
JStr(chars) == [t |-> "str", s |-> chars]
JInt(digits) == [t |-> "int", s |-> digits]

\* payload.get(key): None for a missing key.
Get(v) == IF v.t = "absent" THEN JNull ELSE v

\* Python truth value: None, "" and 0 are false.
Truthy(v) ==
    CASE v.t \in {"absent", "null"} -> FALSE
      [] v.t = "str" -> v.s # <<>>
      [] v.t = "int" -> v.s # <<"0">>

\* str.startswith
startswith(chars, prefix) ==
    /\ Len(chars) >= Len(prefix)
    /\ SubSeq(chars, 1, Len(prefix)) = prefix

\* The prefixes do_POST tests, in the order of its if/elif chain.
Categories ==
    << <<"room",       <<"r","o","o","m",".">> >>,
       <<"connection", <<"c","o","n","n","e","c","t","i","o","n",".">> >>,
       <<"user",       <<"u","s","e","r",".">> >>,
       <<"message",    <<"m","e","s","s","a","g","e",".">> >>,
       <<"webhook",    <<"w","e","b","h","o","o","k",".">> >>,
       <<"control",    <<"c","o","n","t","r","o","l",".">> >> >>

\* The branch of the if/elif chain that event_type takes: "none" when
\* event_type is false or matches no prefix, "AttributeError" when it is
\* true and not a string (it has no startswith).
Dispatch(event_type) ==
    IF ~Truthy(event_type) THEN "none"
    ELSE IF event_type.t # "str" THEN "AttributeError"
    ELSE LET hits == {i \in 1..Len(Categories) :
                         startswith(event_type.s, Categories[i][2])} IN
         IF hits = {} THEN "none"
         ELSE Categories[CHOOSE i \in hits : \A j \in hits : i <= j][1]

\* Request bodies.  kind: "absent" (no body, Content-Length 0), "malformed"
\* (not JSON), "bad_utf8" (bytes that are not UTF-8), "not_object" (a JSON
\* array, string, number or null) or "object".
Body(kind, event_type, event_id) ==
    [kind |-> kind, event_type |-> event_type, event_id |-> event_id]

\* What do_POST raises before it sends the response, or "ok":
\* raw.decode raises UnicodeDecodeError, which `except json.JSONDecodeError`
\* does not catch; payload.get does not exist on a payload that is not a
\* dict; the dispatch may raise.  A body that is absent or malformed raises
\* JSONDecodeError, which is caught: payload = {}.
BeforeResponse(body) ==
    CASE body.kind = "bad_utf8" -> "UnicodeDecodeError"
      [] body.kind = "not_object" -> "AttributeError"
      [] body.kind \in {"absent", "malformed"} -> "ok"
      [] OTHER -> IF Dispatch(Get(body.event_type)) = "AttributeError"
                  THEN "AttributeError" ELSE "ok"

\* event_type values a body may carry.
EventTypes ==
    {JAbsent, JNull, JStr(<<>>), JInt(<<"5">>),
     JStr(<<"r","o","o","m",".","c","r","e","a","t","e","d">>),
     JStr(<<"r","o","o","m">>),
     JStr(<<"c","o","n","n","e","c","t","i","o","n",".","o","p","e","n">>),
     JStr(<<"u","s","e","r",".","o","n","l","i","n","e">>),
     JStr(<<"m","e","s","s","a","g","e",".","s","e","n","t">>),
     JStr(<<"w","e","b","h","o","o","k",".","h","i","t">>),
     JStr(<<"c","o","n","t","r","o","l",".","s","t","o","p">>),
     JStr(<<"u","n","k","n","o","w","n",".","t","h","i","n","g">>)}

\* event_id values a body may carry.
EventIds == {JAbsent, JNull, JStr(<<>>), JStr(<<"e","1">>), JInt(<<"0">>),
             JInt(<<"7">>)}

\* Every body the listener is checked against.
Bodies ==
    {Body(k, JAbsent, JAbsent) :
        k \in {"absent", "malformed", "bad_utf8", "not_object"}}
    \cup {Body("object", et, id) : et \in EventTypes, id \in EventIds}

\* The bodies posted while the whole agent runs: an event with an id, an
\* empty object, and a JSON array.
SampleBodies ==
    {Body("object", JStr(<<"r","o","o","m",".","c","r","e","a","t","e","d">>),
          JStr(<<"e","1">>)),
     Body("object", JAbsent, JAbsent),
     Body("not_object", JAbsent, JAbsent)}

\* A handler thread that serves no request.
Idle ==
    [pc |-> "idle", body |-> Body("absent", JAbsent, JAbsent),
     route |-> "none", event_id |-> JNull, sent |-> 0, ack_event |-> 0,
     id |-> None, token |-> None, ack_calls |-> 0, exc |-> "none"]

\* ----------------------------------------------------------------- state
VARIABLES
    plugin_id,      \* STATE.plugin_id
    token,          \* STATE.token
    hub_n,          \* registrations the hub has accepted so far
    main_pc,        \* position of main()
    attempts,       \* start_callback_server: index of the port being tried
    callback_url,   \* port carried by the callback URL, 0 before the bind
    server_port,    \* port the listener is bound to, 0 before the bind
    tries,          \* registration calls issued by main()'s loop
    main_e,         \* the exception main()'s loop caught last
    exit,           \* "running", or how the process ended
    reg_pc,         \* position inside register_plugin
    resp,           \* register_plugin: the decoded response
    reg_url,        \* register_plugin: port of its callback_url argument
    rc_pc,          \* position inside reconnect_plugin
    rc_count,       \* reconnect_plugin invocations so far
    rc_pre,         \* STATE as reconnect_plugin found it
    rc_calls,       \* hub calls issued by the current reconnect_plugin
    rc_e,           \* what the reconnect call raised
    rc_result,      \* "returned", or the exception reconnect_plugin raised
    hb_pc,          \* position of send_heartbeat
    hb_id,          \* plugin id formatted into the heartbeat URL
    hb_token,       \* token put into the heartbeat body
    hb_calls,       \* heartbeat calls issued in the current tick
    stop_call,      \* the stop calls issued, each <<plugin id, token>>
    posts,          \* the request bodies the hub may post to the listener
    handler         \* per handler thread: position and locals of do_POST

vars == <<plugin_id, token, hub_n, main_pc, attempts, callback_url,
          server_port, tries, main_e, exit, reg_pc, resp, reg_url, rc_pc,
          rc_count, rc_pre, rc_calls, rc_e, rc_result, hb_pc, hb_id,
          hb_token, hb_calls, stop_call, posts, handler>>

\* The variables of each activity.
state_vars == <<plugin_id, token>>
main_vars == <<main_pc, attempts, callback_url, server_port, tries, main_e,
               exit, stop_call>>
reg_vars == <<hub_n, reg_pc, resp, reg_url>>
rc_vars == <<rc_pc, rc_count, rc_pre, rc_calls, rc_e, rc_result>>
hb_vars == <<hb_pc, hb_id, hb_token, hb_calls>>
cb_vars == <<posts, handler>>

\* STATE = PluginState()
Init ==
    /\ plugin_id = None
    /\ token = None
    /\ hub_n = 0
    /\ main_pc = "bind"
    /\ attempts = 1
    /\ callback_url = 0
    /\ server_port = 0
    /\ tries = 0
    /\ main_e = "none"
    /\ exit = "running"
    /\ reg_pc = "none"
    /\ resp = NoResponse
    /\ reg_url = 0
    /\ rc_pc = "idle"
    /\ rc_count = 0
    /\ rc_pre = <<None, None>>
    /\ rc_calls = <<>>
    /\ rc_e = "none"
    /\ rc_result = "none"
    /\ hb_pc = "not_started"
    /\ hb_id = None
    /\ hb_token = None
    /\ hb_calls = 0
    /\ stop_call = <<>>
    /\ posts = SampleBodies
    /\ handler = [h \in 1..MaxHandlers |-> Idle]

\* The daemon threads run for as long as the process does.
alive == exit = "running"

\* ------------------------------------------------- start_callback_server
\* Ports the operating system may hand out for a bind to port 0.
EphemeralPorts == {49152}

\* attempts = [PLUGIN_SERVER_PORT, 0]
Attempts == <<PLUGIN_SERVER_PORT, 0>>

\* server.server_address[1] after a successful bind to `port`.
ActualPorts(port) == IF port = 0 THEN EphemeralPorts ELSE {port}

\* Faulty variant: the URL is built from the requested port.
CallbackUrl_Requested(port, actual_port) == port

\* callback_url = f"http://{PLUGIN_SERVER_HOST}:{actual_port}/callback"
CallbackUrl(port, actual_port) == actual_port

\* One iteration of the loop over attempts: the bind succeeds and the
\* serving thread starts, or it raises PermissionError / OSError and the
\* loop goes on; after the last attempt SystemExit is raised.
Bind ==
    /\ alive /\ main_pc = "bind"
    /\ \/ \E actual_port \in ActualPorts(Attempts[attempts]) :
            /\ server_port' = actual_port
            /\ callback_url' = CallbackUrl(Attempts[attempts], actual_port)
            /\ main_pc' = "register"
            /\ UNCHANGED <<attempts, exit>>
       \/ /\ attempts < Len(Attempts)
          /\ attempts' = attempts + 1
          /\ UNCHANGED <<callback_url, server_port, main_pc, exit>>
       \/ /\ attempts = Len(Attempts)
          /\ exit' = "SystemExit: unable to bind callback server"
          /\ main_pc' = "exit"
          /\ UNCHANGED <<attempts, callback_url, server_port>>
    /\ UNCHANGED <<plugin_id, token, hub_n, tries, main_e, reg_pc, resp,
                   reg_url, rc_pc, rc_count, rc_pre, rc_calls, rc_e, rc_result,
                   hb_vars, stop_call, cb_vars>>

\* Faulty variant: requests are served on the main thread, which serves
\* none while it waits for the answer to a registration call.
listening_OnMainThread == alive /\ server_port # 0 /\ reg_pc # "wait"

\* The listener accepts requests once start_callback_server has bound it.
listening == alive /\ server_port # 0

\* -------------------------------------------------------- register_plugin
\* Faulty variant: the loop catches network failures only, not HTTPError.
MainCatches_NetworkOnly(e) == IsURLError(e) /\ ~IsHTTPError(e)

\* main()'s loop: `except urllib.error.URLError` around register_plugin.
MainCatches(e) == IsURLError(e)

\* Where control goes when register_plugin ends with `e`: "ok" for a normal
\* return, otherwise the exception it raises.  Called from reconnect_plugin
\* it ends that call the same way; called from main()'s loop a normal return
\* breaks out of the loop (the count of tries ends with the loop), a caught
\* exception leads to the sleep before the next try, and any other exception
\* ends the process.
RegisterEnds(e) ==
    /\ reg_pc' = "none"
    /\ reg_url' = 0
    /\ IF rc_pc = "in_register"
       THEN /\ rc_pc' = "done"
            /\ rc_result' = IF e = "ok" THEN "returned" ELSE e
            /\ UNCHANGED <<main_pc, main_e, exit, tries>>
       ELSE /\ UNCHANGED <<rc_pc, rc_result>>
            /\ IF e = "ok"
               THEN /\ main_pc' = "start_heartbeat"
                    /\ tries' = 0
                    /\ UNCHANGED <<main_e, exit>>
               ELSE IF MainCatches(e)
               THEN /\ main_pc' = "sleep"
                    /\ main_e' = e
                    /\ UNCHANGED <<exit, tries>>
               ELSE /\ main_pc' = "exit"
                    /\ exit' = e
                    /\ UNCHANGED <<main_e, tries>>

\* register_plugin's local `resp` once the function has ended: gone, except
\* that the model keeps it for reconnect_plugin's caller to compare STATE to.
AfterReturn(r) == IF rc_pc = "in_register" THEN r ELSE NoResponse

\* http_post(".../v1/plugins/register") returns or raises.  On a response,
\* `STATE.plugin_id = resp["plugin_id"]` runs: the subscript may raise, and
\* otherwise plugin_id is assigned while token still holds its old value.
RegisterResponse ==
    /\ alive /\ reg_pc = "wait"
    /\ \/ \E e \in PostErrors :
            /\ RegisterEnds(e)
            /\ UNCHANGED <<plugin_id, hub_n, resp>>
       \/ \E shape \in RespShapes :
            LET r == Response(shape, hub_n + 1)
                err == SubscriptError(r, "plugin_id") IN
            /\ hub_n' = hub_n + 1
            /\ IF err = "ok"
               THEN /\ plugin_id' = r.plugin_id
                    /\ reg_pc' = "set_token"
                    /\ resp' = r
                    /\ UNCHANGED <<main_pc, main_e, exit, rc_pc, rc_result,
                                   tries, reg_url>>
               ELSE /\ RegisterEnds(err)
                    /\ resp' = AfterReturn(r)
                    /\ UNCHANGED plugin_id
    /\ UNCHANGED <<token, attempts, callback_url, server_port, rc_count, rc_pre,
                   rc_calls, rc_e,
                   hb_vars, stop_call, cb_vars>>

\* `STATE.token = resp["token"]`, then the function returns.
RegisterSetToken ==
    /\ alive /\ reg_pc = "set_token"
    /\ LET err == SubscriptError(resp, "token") IN
       /\ token' = IF err = "ok" THEN resp.token ELSE token
       /\ RegisterEnds(err)
       /\ resp' = AfterReturn(resp)
    /\ UNCHANGED <<plugin_id, hub_n, attempts, callback_url, server_port,
                   rc_count, rc_pre, rc_calls, rc_e,
                   hb_vars, stop_call, cb_vars>>

\* ------------------------------------------------------------------ main
\* `for _ in range(10)`: one more try issues the registration call.
MainRegister ==
    /\ alive /\ main_pc = "register" /\ rc_pc = "idle"
    /\ tries' = tries + 1
    /\ main_pc' = "in_register"
    /\ reg_pc' = "wait"
    /\ reg_url' = callback_url
    /\ UNCHANGED <<plugin_id, token, hub_n, attempts, callback_url,
                   server_port, main_e,
                   exit, resp, rc_pc, rc_count, rc_pre, rc_calls, rc_e,
                   rc_result,
                   hb_vars, stop_call, cb_vars>>

\* The except block ends (time.sleep(3), `e` is unbound), then the next
\* iteration, or the loop's else branch: SystemExit("register failed, abort").
MainSleep ==
    /\ alive /\ main_pc = "sleep"
    /\ main_e' = "none"
    /\ IF tries < RegisterTries
       THEN main_pc' = "register" /\ UNCHANGED exit
       ELSE main_pc' = "exit" /\ exit' = "SystemExit: register failed, abort"
    /\ UNCHANGED <<plugin_id, token, hub_n, attempts, callback_url,
                   server_port, tries, reg_pc, resp, reg_url, rc_pc,
                   rc_count, rc_pre, rc_calls, rc_e, rc_result,
                   hb_vars, stop_call, cb_vars>>

\* ------------------------------------------------------- reconnect_plugin
\* Faulty variant: the test of STATE.registered() is inverted.
ReconnectDelegates_Inverted(pid, tok) == registered(pid, tok)

\* `if not STATE.registered(): return register_plugin(callback_url)`
ReconnectDelegates(pid, tok) == ~registered(pid, tok)

\* Faulty variant: the recovery tests for code 401 instead of 400.
ReconnectRecovers_Code401(e) == IsHTTPError(e) /\ HTTPCode(e) = 401

\* Faulty variant: the recovery re-registers on any HTTPError.
ReconnectRecovers_AnyStatus(e) == IsHTTPError(e)

\* `except urllib.error.HTTPError as e: if e.code == 400:` re-register.
ReconnectRecovers(e) == IsHTTPError(e) /\ HTTPCode(e) = 400

\* A call reconnect_plugin makes to the hub: the endpoint, the plugin id in
\* its URL, and the token and the callback URL in its payload.
RegisterCall(url) ==
    [endpoint |-> "register", id |-> None, token |-> None, callback_url |-> url]
ReconnectRequest(pid, tok, url) ==
    [endpoint |-> "reconnect", id |-> pid, token |-> tok, callback_url |-> url]

\* reconnect_plugin is entered on the main thread, before the registration
\* loop or from the keep-alive loop.  Unregistered, it calls register_plugin;
\* registered, it posts the reconnect request for STATE.plugin_id.
ReconnectCall ==
    /\ alive /\ rc_pc = "idle" /\ rc_count < MaxReconnects
    /\ \/ main_pc = "register" /\ tries = 0 /\ rc_count = 0
       \/ main_pc = "run"
    /\ rc_count' = rc_count + 1
    /\ rc_pre' = <<plugin_id, token>>
    /\ rc_e' = "none"
    /\ rc_result' = "none"
    /\ IF ReconnectDelegates(plugin_id, token)
       THEN /\ rc_pc' = "in_register"
            /\ reg_pc' = "wait"
            /\ reg_url' = callback_url
            /\ rc_calls' = <<RegisterCall(callback_url)>>
       ELSE /\ rc_pc' = "wait"
            /\ rc_calls' = <<ReconnectRequest(plugin_id, token, callback_url)>>
            /\ UNCHANGED <<reg_pc, reg_url>>
    /\ UNCHANGED <<plugin_id, token, hub_n, main_pc, attempts, callback_url,
                   server_port, tries, main_e, exit, resp,
                   hb_vars, stop_call, cb_vars>>

\* The reconnect call returns (the function returns resp) or raises: an
\* HTTPError with code 400 leads to register_plugin, anything else is
\* re-raised or was never caught.
ReconnectResponse ==
    /\ alive /\ rc_pc = "wait"
    /\ \/ /\ rc_pc' = "done"
          /\ rc_result' = "returned"
          /\ UNCHANGED <<rc_e, rc_calls, reg_pc, reg_url>>
       \/ \E e \in PostErrors :
            /\ rc_e' = e
            /\ IF ReconnectRecovers(e)
               THEN /\ rc_pc' = "in_register"
                    /\ reg_pc' = "wait"
                    /\ reg_url' = callback_url
                    /\ rc_calls' = Append(rc_calls, RegisterCall(callback_url))
                    /\ UNCHANGED rc_result
               ELSE /\ rc_pc' = "done"
                    /\ rc_result' = e
                    /\ UNCHANGED <<rc_calls, reg_pc, reg_url>>
    /\ UNCHANGED <<plugin_id, token, hub_n, main_pc, attempts, callback_url,
                   server_port, tries, main_e, exit, resp, rc_count, rc_pre,
                   hb_vars, stop_call, cb_vars>>

\* The caller of reconnect_plugin takes the result and goes on.
ReconnectDone ==
    /\ alive /\ rc_pc = "done"
    /\ rc_pc' = "idle"
    /\ rc_pre' = <<None, None>>
    /\ rc_calls' = <<>>
    /\ rc_e' = "none"
    /\ rc_result' = "none"
    /\ resp' = NoResponse
    /\ UNCHANGED <<plugin_id, token, hub_n, main_pc, attempts, callback_url,
                   server_port, tries, main_e, exit, reg_pc, reg_url, rc_count,
                   hb_vars, stop_call, cb_vars>>

\* -------------------------------------------------- main: heartbeat, stop
\* heartbeat_thread.start()
StartHeartbeat ==
    /\ alive /\ main_pc = "start_heartbeat"
    /\ main_pc' = "run"
    /\ hb_pc' = "check"
    /\ UNCHANGED <<state_vars, reg_vars, rc_vars, cb_vars, attempts,
                   callback_url, server_port, tries, main_e, exit, stop_call,
                   hb_id, hb_token, hb_calls>>

\* The process ends: the daemon heartbeat thread ends with it.
HeartbeatKilled ==
    /\ hb_pc' = "killed"
    /\ hb_id' = None
    /\ hb_token' = None
    /\ hb_calls' = 0

\* except urllib.error.URLError around the stop notification.
StopCatches(e) == IsURLError(e)

\* KeyboardInterrupt in the keep-alive loop: if STATE.registered() the stop
\* notification is posted, else main() returns.  Nothing else writes STATE
\* while the main thread is here, so the reads are one step.
Interrupt ==
    /\ alive /\ main_pc = "run" /\ rc_pc = "idle"
    /\ IF registered(plugin_id, token)
       THEN /\ stop_call' = Append(stop_call, <<plugin_id, token>>)
            /\ main_pc' = "stop_wait"
            /\ UNCHANGED <<exit, hb_vars>>
       ELSE /\ main_pc' = "exit"
            /\ exit' = "returned"
            /\ HeartbeatKilled
            /\ UNCHANGED stop_call
    /\ UNCHANGED <<state_vars, reg_vars, rc_vars, cb_vars, attempts,
                   callback_url, server_port, tries, main_e>>

\* The stop call returns or raises; a URLError is printed and main()
\* returns, any other exception ends the process with a traceback.
StopResponse ==
    /\ alive /\ main_pc = "stop_wait"
    /\ main_pc' = "exit"
    /\ \/ exit' = "returned"
       \/ \E e \in PostErrors : exit' = IF StopCatches(e) THEN "returned" ELSE e
    /\ HeartbeatKilled
    /\ UNCHANGED <<state_vars, reg_vars, rc_vars, cb_vars, attempts,
                   callback_url, server_port, tries, main_e, stop_call>>

\* KeyboardInterrupt outside the try block of the keep-alive loop is not
\* caught: the process ends without a stop notification.
InterruptStartup ==
    /\ alive /\ rc_pc = "idle"
    /\ main_pc \in {"bind", "register", "in_register", "sleep",
                    "start_heartbeat"}
    /\ main_pc' = "exit"
    /\ exit' = "KeyboardInterrupt"
    /\ UNCHANGED <<state_vars, reg_vars, rc_vars, cb_vars, hb_vars, attempts,
                   callback_url, server_port, tries, main_e, stop_call>>

\* -------------------------------------------------------- send_heartbeat
\* except urllib.error.URLError around the heartbeat call.
HeartbeatCatches(e) == IsURLError(e)

\* STATE.registered(), first operand: `self.plugin_id is not None`.
HeartbeatCheck ==
    /\ alive /\ hb_pc = "check"
    /\ hb_pc' = IF plugin_id # None THEN "check_token" ELSE "sleep"
    /\ UNCHANGED <<state_vars, main_vars, reg_vars, rc_vars, cb_vars, hb_id,
                   hb_token, hb_calls>>

\* STATE.registered(), second operand: `self.token is not None`.
HeartbeatCheckToken ==
    /\ alive /\ hb_pc = "check_token"
    /\ hb_pc' = IF token # None THEN "url" ELSE "sleep"
    /\ UNCHANGED <<state_vars, main_vars, reg_vars, rc_vars, cb_vars, hb_id,
                   hb_token, hb_calls>>

\* The URL is formatted from STATE.plugin_id.
HeartbeatUrl ==
    /\ alive /\ hb_pc = "url"
    /\ hb_id' = plugin_id
    /\ hb_pc' = "post"
    /\ UNCHANGED <<state_vars, main_vars, reg_vars, rc_vars, cb_vars, hb_token,
                   hb_calls>>

\* The body is built from STATE.token and the call is issued.
HeartbeatPost ==
    /\ alive /\ hb_pc = "post"
    /\ hb_token' = token
    /\ hb_calls' = hb_calls + 1
    /\ hb_pc' = "wait"
    /\ UNCHANGED <<state_vars, main_vars, reg_vars, rc_vars, cb_vars, hb_id>>

\* The call returns or raises: a URLError is printed, any other exception
\* leaves the loop and ends the thread.  The arguments of the call are gone.
HeartbeatResponse ==
    /\ alive /\ hb_pc = "wait"
    /\ \/ hb_pc' = "sleep"
       \/ \E e \in PostErrors :
            hb_pc' = IF HeartbeatCatches(e) THEN "sleep" ELSE "dead"
    /\ hb_id' = None
    /\ hb_token' = None
    /\ UNCHANGED <<state_vars, main_vars, reg_vars, rc_vars, cb_vars,
                   hb_calls>>

\* time.sleep(5), then the next tick.
HeartbeatSleep ==
    /\ alive /\ hb_pc = "sleep"
    /\ hb_pc' = "check"
    /\ hb_calls' = 0
    /\ UNCHANGED <<state_vars, main_vars, reg_vars, rc_vars, cb_vars, hb_id,
                   hb_token>>

\* ----------------------------------------------- CallbackHandler.do_POST
\* `payload = {}` replaces a body that json.loads rejects.
Payload(body) ==
    IF body.kind = "object" THEN body ELSE Body("object", JAbsent, JAbsent)

\* Faulty variant: the acknowledgment is made before the response is sent.
AfterDispatch_AckFirst == "ack_event"

\* What follows the dispatch: self.send_response(200) and the body.
AfterDispatch == "respond"

\* What follows the response: `if event_id: ack_event(event_id)`.
AfterResponse(event_id) == IF Truthy(event_id) THEN "ack_event" ELSE "done"

\* except urllib.error.URLError around the ack call.
AckCatches(e) == IsURLError(e)

\* A request arrives on a handler thread of its own: the body is read and
\* decoded, event_type and event_id are taken from the payload and the
\* event is dispatched by prefix.  An exception ends the handler before any
\* response is sent.
HandlerReceive(h) ==
    /\ listening /\ handler[h].pc = "idle"
    /\ \E body \in posts :
        LET exc == BeforeResponse(body)
            payload == Payload(body) IN
        handler' = [handler EXCEPT ![h] =
            IF exc = "ok"
            THEN [Idle EXCEPT !.pc = AfterDispatch, !.body = body,
                              !.route = Dispatch(Get(payload.event_type)),
                              !.event_id = Get(payload.event_id)]
            ELSE [Idle EXCEPT !.pc = "error", !.body = body, !.exc = exc]]
    /\ UNCHANGED <<state_vars, main_vars, reg_vars, rc_vars, hb_vars, posts>>

\* The 200 response with body {"status": "ok"} is written.
HandlerRespond(h) ==
    /\ listening /\ handler[h].pc = "respond"
    /\ handler' = [handler EXCEPT ![h].sent = @ + 1,
                                  ![h].pc = AfterResponse(handler[h].event_id)]
    /\ UNCHANGED <<state_vars, main_vars, reg_vars, rc_vars, hb_vars, posts>>

\* ack_event is entered; STATE.registered(), first operand.
AckCheck(h) ==
    /\ listening /\ handler[h].pc = "ack_event"
    /\ handler' = [handler EXCEPT
          ![h].ack_event = @ + 1,
          ![h].pc = IF plugin_id # None THEN "ack_check_token" ELSE "done"]
    /\ UNCHANGED <<state_vars, main_vars, reg_vars, rc_vars, hb_vars, posts>>

\* STATE.registered(), second operand.
AckCheckToken(h) ==
    /\ listening /\ handler[h].pc = "ack_check_token"
    /\ handler' = [handler EXCEPT
          ![h].pc = IF token # None THEN "ack_url" ELSE "done"]
    /\ UNCHANGED <<state_vars, main_vars, reg_vars, rc_vars, hb_vars, posts>>

\* The URL is formatted from STATE.plugin_id.
AckUrl(h) ==
    /\ listening /\ handler[h].pc = "ack_url"
    /\ handler' = [handler EXCEPT ![h].id = plugin_id, ![h].pc = "ack_post"]
    /\ UNCHANGED <<state_vars, main_vars, reg_vars, rc_vars, hb_vars, posts>>

\* The body is built from STATE.token and event_id; the call is issued.
AckPost(h) ==
    /\ listening /\ handler[h].pc = "ack_post"
    /\ handler' = [handler EXCEPT ![h].token = token,
                                  ![h].ack_calls = @ + 1,
                                  ![h].pc = "ack_wait"]
    /\ UNCHANGED <<state_vars, main_vars, reg_vars, rc_vars, hb_vars, posts>>

\* The ack call returns or raises: a URLError is printed, any other
\* exception leaves ack_event and do_POST.  The arguments of the call are
\* gone.
AckResponse(h) ==
    /\ listening /\ handler[h].pc = "ack_wait"
    /\ \E e \in PostErrors \cup {"none"} :
         handler' = [handler EXCEPT
            ![h].pc = "done",
            ![h].id = None,
            ![h].token = None,
            ![h].exc = IF e = "none" \/ AckCatches(e) THEN "none" ELSE e]
    /\ UNCHANGED <<state_vars, main_vars, reg_vars, rc_vars, hb_vars, posts>>

\* do_POST has returned or raised: the thread ends, the next request gets
\* a new one.
HandlerFinish(h) ==
    /\ listening /\ handler[h].pc \in {"done", "error"}
    /\ handler' = [handler EXCEPT ![h] = Idle]
    /\ UNCHANGED <<state_vars, main_vars, reg_vars, rc_vars, hb_vars, posts>>

Next ==
    \/ Bind
    \/ MainRegister
    \/ RegisterResponse
    \/ RegisterSetToken
    \/ MainSleep
    \/ ReconnectCall
    \/ ReconnectResponse
    \/ ReconnectDone
    \/ StartHeartbeat
    \/ Interrupt
    \/ StopResponse
    \/ InterruptStartup
    \/ HeartbeatCheck
    \/ HeartbeatCheckToken
    \/ HeartbeatUrl
    \/ HeartbeatPost
    \/ HeartbeatResponse
    \/ HeartbeatSleep
    \/ \E h \in 1..MaxHandlers : HandlerReceive(h)
    \/ \E h \in 1..MaxHandlers : HandlerRespond(h)
    \/ \E h \in 1..MaxHandlers : AckCheck(h)
    \/ \E h \in 1..MaxHandlers : AckCheckToken(h)
    \/ \E h \in 1..MaxHandlers : AckUrl(h)
    \/ \E h \in 1..MaxHandlers : AckPost(h)
    \/ \E h \in 1..MaxHandlers : AckResponse(h)
    \/ \E h \in 1..MaxHandlers : HandlerFinish(h)

Spec == Init /\ [][Next]_vars

\* The listener alone, against every body: the agent either has just bound
\* the listener and is not registered yet, or sits in the keep-alive loop
\* with the credential of its first registration.
InitCallback ==
    /\ posts = Bodies
    /\ handler = [h \in 1..MaxHandlers |-> Idle]
    /\ attempts = 1
    /\ callback_url = PLUGIN_SERVER_PORT
    /\ server_port = PLUGIN_SERVER_PORT
    /\ tries = 0
    /\ main_e = "none"
    /\ exit = "running"
    /\ reg_pc = "none"
    /\ resp = NoResponse
    /\ reg_url = 0
    /\ rc_pc = "idle"
    /\ rc_count = 0
    /\ rc_pre = <<None, None>>
    /\ rc_calls = <<>>
    /\ rc_e = "none"
    /\ rc_result = "none"
    /\ hb_id = None
    /\ hb_token = None
    /\ hb_calls = 0
    /\ stop_call = <<>>
    /\ \/ /\ main_pc = "register"
          /\ plugin_id = None /\ token = None /\ hub_n = 0
          /\ hb_pc = "not_started"
       \/ /\ main_pc = "run"
          /\ plugin_id = Id(1) /\ token = Id(1) /\ hub_n = 1
          /\ hb_pc = "check"

NextCallback ==
    \/ \E h \in 1..MaxHandlers : HandlerReceive(h)
    \/ \E h \in 1..MaxHandlers : HandlerRespond(h)
    \/ \E h \in 1..MaxHandlers : AckCheck(h)
    \/ \E h \in 1..MaxHandlers : AckCheckToken(h)
    \/ \E h \in 1..MaxHandlers : AckUrl(h)
    \/ \E h \in 1..MaxHandlers : AckPost(h)
    \/ \E h \in 1..MaxHandlers : AckResponse(h)
    \/ \E h \in 1..MaxHandlers : HandlerFinish(h)

SpecCallback == InitCallback /\ [][NextCallback]_vars

\* ================================================================ claims

\* C1: in every reachable state plugin_id and token are both absent or both
\* present; no state has exactly one of the two set.
C1_PairSetTogether == (plugin_id = None) <=> (token = None)

\* C2: a reconnect_plugin call made while registered whose reconnect call
\* is answered with HTTP 400 issues exactly one registration call after it
\* and no further reconnect call, and when that registration returns STATE
\* holds the plugin_id and token of the new response, not the old ones.
C2_Reconnect400Reregisters ==
    (rc_e = "HTTPError400" /\ registered(rc_pre[1], rc_pre[2])) =>
        /\ rc_calls = <<ReconnectRequest(rc_pre[1], rc_pre[2], callback_url),
                        RegisterCall(callback_url)>>
        /\ (rc_pc = "done" /\ rc_result = "returned") =>
              /\ plugin_id = resp.plugin_id
              /\ token = resp.token
              /\ plugin_id # rc_pre[1]
              /\ token # rc_pre[2]

\* C2 witness: a reconnect answered with 400 has re-registered and returned
\* with a new credential in STATE.
C2_Witness ==
    /\ rc_pc = "done" /\ rc_result = "returned" /\ rc_e = "HTTPError400"
    /\ registered(rc_pre[1], rc_pre[2])
    /\ registered(plugin_id, token)
    /\ <<plugin_id, token>> # rc_pre

C4_AlwaysResponds ==
    \A h \in 1..MaxHandlers :
        handler[h].pc \in {"done", "error"} => handler[h].sent = 1

\* An event_id that is in the payload (a JSON null counts as no id).
Present(event_id) == event_id.t \notin {"absent", "null"}

\* C5: for every request the handler has answered, ack_event was called if
\* and only if the decoded payload has an event_id, whatever its value.
C5_AckIffEventId ==
    \A h \in 1..MaxHandlers :
        handler[h].pc = "done" =>
            (handler[h].ack_event = 1
                <=> Present(Payload(handler[h].body).event_id))

\* C6: within one request the 200 response is sent before ack_event is
\* entered and before the ack call is issued.
C6_ResponseBeforeAck ==
    \A h \in 1..MaxHandlers :
        (handler[h].ack_event > 0 \/ handler[h].ack_calls > 0
            \/ handler[h].pc \in {"ack_event", "ack_check_token", "ack_url",
                                  "ack_post", "ack_wait"})
        => handler[h].sent = 1

\* C6 witness: the ack call of an answered request is pending at the hub.
C6_Witness ==
    \E h \in 1..MaxHandlers :
        /\ handler[h].pc = "ack_wait" /\ handler[h].ack_calls = 1
        /\ handler[h].sent = 1

\* C7: the heartbeat never posts with an absent plugin id or token, posts at
\* most once in a tick, and once started ticks on until shutdown.
C7_HeartbeatEveryTick ==
    /\ hb_pc = "wait" => (hb_id # None /\ hb_token # None)
    /\ hb_calls <= 1
    /\ hb_pc # "dead"

\* C8: whatever a heartbeat call ends with, the loop goes on to the sleep
\* before the next tick and STATE is what it was.
C8_FailedTickGoesOn ==
    [][(hb_pc = "wait" /\ hb_pc' \notin {"wait", "killed"}) =>
          /\ hb_pc' = "sleep"
          /\ plugin_id' = plugin_id
          /\ token' = token]_vars

\* What register_plugin leaves in STATE, from the STATE it found, the
\* response it decoded and the way it ended.
RegisterEffect(pre, r, result) ==
    IF result = "returned" THEN <<r.plugin_id, r.token>>
    ELSE IF result = "KeyError" /\ r.plugin_id # ABSENT
    THEN <<r.plugin_id, pre[2]>>
    ELSE pre

\* C9: reconnect_plugin entered with an empty STATE issues exactly one
\* registration call, carrying the callback URL, and no reconnect call, and
\* leaves in STATE what register_plugin leaves.
C9_ReconnectUnregisteredRegisters ==
    (rc_pc # "idle" /\ rc_pre = <<None, None>>) =>
        /\ rc_calls = <<RegisterCall(callback_url)>>
        /\ rc_e = "none"
        /\ rc_pc = "done" =>
              <<plugin_id, token>> = RegisterEffect(rc_pre, resp, rc_result)

\* C9 witness: reconnect_plugin entered with an empty STATE has returned
\* and left the agent registered.
C9_Witness ==
    /\ rc_pc = "done" /\ rc_pre = <<None, None>> /\ rc_result = "returned"
    /\ registered(plugin_id, token)
    /\ Len(rc_calls) = 1

\* C10: when the reconnect call of a registered agent fails with anything
\* but an HTTP 400, reconnect_plugin raises that same exception, has issued
\* no registration call, and STATE is what it found.
C10_OtherErrorsPropagate ==
    (rc_e \in PostErrors \ {"HTTPError400"}) =>
        /\ rc_pc = "done"
        /\ rc_result = rc_e
        /\ rc_calls = <<ReconnectRequest(rc_pre[1], rc_pre[2], callback_url)>>
        /\ <<plugin_id, token>> = rc_pre
        /\ registered(rc_pre[1], rc_pre[2])

\* C10 witness: a reconnect call answered with HTTP 500, and another one
\* that met a network failure, have been raised to the caller.
C10_Witness ==
    /\ rc_pc = "done" /\ rc_e \in {"HTTPError500", "URLError"}
    /\ rc_result = rc_e
    /\ registered(plugin_id, token)

\* C11: a registration attempt that began with an empty STATE and failed,
\* by an exception of the call or by a response that lacks plugin_id or
\* token, leaves both plugin_id and token absent.  The attempt is the one
\* reconnect_plugin delegated to, or one of main()'s loop before any other
\* registration was made.
C11_FailedRegistrationLeavesEmpty ==
    /\ (rc_pc = "done" /\ rc_pre = <<None, None>>
            /\ rc_result \notin {"none", "returned"})
        => (plugin_id = None /\ token = None)
    /\ (rc_count = 0
            /\ (main_pc = "sleep" \/ exit \in PostErrors \cup {"KeyError"}))
        => (plugin_id = None /\ token = None)

\* C12: once the shutdown signal (KeyboardInterrupt) has arrived, a
\* registered agent has issued exactly one stop call, for the plugin id and
\* with the token STATE holds, and when that call has ended the process has
\* ended, whatever the call ended with; an agent that is not registered has
\* issued no stop call.
C12_StopCallOnShutdown ==
    LET signalled == \/ exit \in {"KeyboardInterrupt", "returned"}
                     \/ main_pc = "stop_wait"
                     \/ stop_call # <<>> IN
    signalled =>
        /\ registered(plugin_id, token) =>
              /\ stop_call = << <<plugin_id, token>> >>
              /\ main_pc \in {"stop_wait", "exit"}
              /\ main_pc = "exit" <=> exit # "running"
        /\ ~registered(plugin_id, token) => stop_call = <<>>

\* C13: the listener is bound to the preferred port when the first attempt
\* succeeds and to an ephemeral port only after the first attempt failed;
\* every registration call carries the port the listener is actually bound
\* to; and when no port could be bound the process has ended with
\* SystemExit and no registration call was made.
C13_BindFallback ==
    /\ attempts = 1 => server_port \in {0, PLUGIN_SERVER_PORT}
    /\ (attempts = 2 /\ server_port # 0) =>
          /\ server_port \in EphemeralPorts
          /\ server_port # PLUGIN_SERVER_PORT
    /\ reg_pc # "none" => (server_port # 0 /\ reg_url = server_port)
    /\ \A i \in 1..Len(rc_calls) :
          server_port # 0 /\ rc_calls[i].callback_url = server_port
    /\ server_port = 0 =>
          /\ tries = 0 /\ hub_n = 0 /\ rc_count = 0 /\ reg_pc = "none"
          /\ main_pc \in {"bind", "exit"}
    /\ exit = "SystemExit: unable to bind callback server" =>
          server_port = 0 /\ attempts = Len(Attempts)

\* C13 witness: the preferred port could not be bound and a registration
\* call that carries the ephemeral port is pending.
C13_Witness ==
    /\ attempts = 2 /\ server_port \in EphemeralPorts
    /\ reg_pc = "wait" /\ main_pc = "in_register"
    /\ reg_url = server_port /\ reg_url # PLUGIN_SERVER_PORT

\* C14: the startup loop issues at most RegisterTries registration calls;
\* a network failure of a try (URLError, or a timeout) is never fatal by
\* itself but leads to the sleep before the next try; after the first
\* success no registration call of the loop is pending; and when the loop
\* has run out of tries the process has ended with SystemExit, the
\* heartbeat was never started and STATE is still empty.
C14_BoundedRetries ==
    /\ tries <= RegisterTries
    /\ stop_call = <<>> => exit \notin {"URLError", "TimeoutError"}
    /\ main_pc = "sleep" => (main_e # "none" /\ hb_pc = "not_started")
    /\ main_pc \in {"start_heartbeat", "run", "stop_wait"} =>
          (reg_pc = "none" \/ rc_pc = "in_register")
    /\ exit = "SystemExit: register failed, abort" =>
          /\ tries = RegisterTries
          /\ main_pc = "exit"
          /\ hb_pc = "not_started"
          /\ rc_count = 0 => (plugin_id = None /\ token = None)

\* C15: ack_event issues no call while STATE is not registered; registered,
\* it issues exactly one call, for STATE.plugin_id and with STATE.token;
\* whatever that call ends with, no exception leaves ack_event, STATE is
\* what it was and the one response of the request stays as sent.
C15_AckBestEffort ==
    \A h \in 1..MaxHandlers :
        /\ handler[h].ack_calls <= 1
        /\ handler[h].ack_calls = 1 =>
              /\ registered(plugin_id, token)
              /\ handler[h].pc \in {"ack_wait", "done"}
              /\ handler[h].sent = 1
        /\ handler[h].pc = "ack_wait" =>
              /\ handler[h].ack_calls = 1
              /\ handler[h].id = plugin_id
              /\ handler[h].token = token
        /\ (handler[h].pc = "done" /\ handler[h].ack_event = 1) =>
              /\ handler[h].ack_calls = 1 <=> registered(plugin_id, token)
              /\ handler[h].exc = "none"
              /\ handler[h].sent = 1

\* C16: a request with a decoded payload is routed to the one category
\* whose dotted prefix its event_type starts with, and to no category when
\* its event_type starts with none of them or is absent; "room.created"
\* takes the room path; the dispatch raises nothing and the request is
\* answered with one 200.
C16_DispatchByPrefix ==
    \A h \in 1..MaxHandlers :
        LET body == handler[h].body
            et == Payload(body).event_type
            hits == IF et.t = "str"
                    THEN {i \in 1..Len(Categories) :
                             startswith(et.s, Categories[i][2])}
                    ELSE {} IN
        (/\ handler[h].pc # "idle"
         /\ body.kind \in {"object", "absent", "malformed"}) =>
            /\ Cardinality(hits) <= 1
            /\ handler[h].pc # "error"
            /\ handler[h].exc # "AttributeError"
            /\ \A i \in hits : handler[h].route = Categories[i][1]
            /\ hits = {} => handler[h].route = "none"
            /\ et = JStr(<<"r","o","o","m",".","c","r","e","a","t","e","d">>)
                  => handler[h].route = "room"
            /\ handler[h].pc # "respond" => handler[h].sent = 1

\* C17: every heartbeat, ack and stop call that is issued carries the
\* plugin id and the token of one and the same registration (the hub
\* issues both with the same number).
C17_CallsUseOnePair ==
    /\ hb_pc = "wait" => (hb_id = hb_token /\ hb_id # None)
    /\ \A h \in 1..MaxHandlers :
          handler[h].pc = "ack_wait" =>
              (handler[h].id = handler[h].token /\ handler[h].id # None)
    /\ \A i \in 1..Len(stop_call) :
          stop_call[i][1] = stop_call[i][2] /\ stop_call[i][1] # None

\* C18: when the process has ended on a shutdown signal received in the
\* keep-alive loop, no callback request that was accepted is left without
\* its 200 response.
C18_InFlightAnswered ==
    (exit = "returned" \/ (exit # "running" /\ stop_call # <<>>))
        => \A h \in 1..MaxHandlers :
              handler[h].pc \notin {"idle", "error"} => handler[h].sent = 1

C20_RegisteredIsMonotonic ==
    [][/\ registered(plugin_id, token) => registered(plugin_id', token')
       /\ (/\ rc_e = "HTTPError400"
           /\ rc_pc = "in_register" /\ rc_pc' = "done"
           /\ rc_result' # "returned")
          => <<plugin_id', token'>> = rc_pre]_vars

====
